---- MODULE Spec2Model ----
(***************************************************************************)
(* Model of the booking.com scrapers of this repository:                   *)
(*   main.py             Region -> Country -> HotelListing, threaded       *)
(*   main1.py            fetch(): manual retry layer over requests/urllib3 *)
(*   scrape_Countries.py countries.json: Country -> City -> Hotel          *)
(* One run executes one of the programs; prog says which.                  *)
(***************************************************************************)
EXTENDS Integers, Sequences, FiniteSets, TLC

(* ------------------------------ bounds -------------------------------- *)
\* longest run of identical answers in an endpoint script
MaxRun == 2
\* largest value of the retries argument of main1.fetch
MaxRetries == 2

(* ------------------------- program constants -------------------------- *)
\* main1.py make_session: Retry(total=8, connect=4, ...)
RetryTotal1 == 8
RetryConnect1 == 4
\* main.py make_session: Retry(total=5, ...)
RetryTotal == 5
\* main.py fetch_html: len(r.text) < 1000
MinLen == 1000
\* main1.py fetch(url, retries=2)
DefaultRetries == 2

\* "no value" for integer-valued fields (None)
NONE == -1
\* status code standing for a transport-level exception (no response)
EXC == 0

(* ------------------------------- HTTP ---------------------------------- *)
\* What the remote end does with one GET on the wire: a status code and a
\* body length, or a transport error.
Answers ==
  { [sc |-> EXC, len |-> 0],
    [sc |-> 200, len |-> MinLen],
    [sc |-> 200, len |-> MinLen - 1],
    [sc |-> 204, len |-> 0],
    [sc |-> 404, len |-> MinLen],
    [sc |-> 503, len |-> MinLen] }

\* An endpoint answers a script: up to two runs of identical answers, then
\* the same answer forever.
Runs == { [a |-> a, n |-> n] : a \in Answers, n \in 1..MaxRun }
Endpoints ==
  { [runs |-> rs, steady |-> s] :
      rs \in {<<>>} \cup { <<r>> : r \in Runs }
                    \cup { <<r1, r2>> : r1 \in Runs, r2 \in Runs },
      s \in Answers }

RECURSIVE AnswerIn(_, _, _)
AnswerIn(rs, s, w) ==
  IF rs = <<>> THEN s
  ELSE IF w <= Head(rs).n THEN Head(rs).a
  ELSE AnswerIn(Tail(rs), s, w - Head(rs).n)

\* the answer to the w-th GET that reaches the endpoint
AnswerAt(ep, w) == AnswerIn(ep.runs, ep.steady, w)

\* Retry(status_forcelist=[429, 500, 502, 503, 504])
status_forcelist == {429, 500, 502, 503, 504}

\* requests.Response.raise_for_status raises HTTPError for 4xx and 5xx
raise_for_status(sc) == sc >= 400 /\ sc < 600

VARIABLES
  prog,          \* which program this run executes
  endpoint,      \* the script of the URL being fetched
  wire,          \* number of GET requests that reached the endpoint
  calls,         \* number of SESSION.get / session.get calls started
  retry_total,   \* urllib3 Retry.total left in the current get call
  retry_connect, \* urllib3 Retry.connect left in the current get call
  last_status,   \* status of the last answer received (NONE before any)
  f_pc,          \* position of fetch / fetch_html
  retries,       \* main1.fetch argument
  attempt,       \* main1.fetch loop variable
  last_exc,      \* main1.fetch local
  f_ret,         \* value returned by fetch / fetch_html (its body length)
  args,          \* main.py: the parsed command line
  m_pc,          \* main.py: position of main()
  region_pairs,  \* main.py: main() local
  tasks,         \* main.py: one process_region call per submitted future
  results,       \* main.py: main() local
  out_file,      \* main.py: the file at args.output
  exit_status,   \* exit status of the process (NONE while it runs)
  last_scrape,   \* main.py history: the listing scrape that just ended
  served,        \* number of anchors and cards the site has served so far
  concurrency,   \* scrape_Countries.py: main(concurrency)
  sc_pc,         \* scrape_Countries.py: position of main()
  regions,       \* scrape_Countries.py: load_regions(REGIONS_SOURCE)
  resolvers,     \* scrape_Countries.py: the stage 1 futures
  pairs,         \* scrape_Countries.py: main() local
  countries_full, \* scrape_Countries.py: main() local
  scrapers,      \* scrape_Countries.py: the stage 2 futures
  countries_json, \* scrape_Countries.py: the file countries.json
  tmp_file,      \* scrape_Countries.py: the file countries.json.tmp
  fn_pc,         \* a single call of a function: its position
  fn_in,         \* a single call of a function: its arguments
  fn_out,        \* a single call of a function: its return value
  writes         \* history: completed writes of the output document

netVars == <<endpoint, wire, calls, retry_total, retry_connect, last_status>>
fetchVars == <<f_pc, retries, attempt, last_exc, f_ret>>

mainVars ==
  <<args, m_pc, region_pairs, tasks, results, out_file, exit_status,
    last_scrape, served>>

scVars ==
  <<concurrency, sc_pc, regions, resolvers, pairs, countries_full, scrapers,
    countries_json, tmp_file>>

\* a path that holds no file.  exists: the path holds a complete document;
\* partial: it holds the beginning of a document that is being written
NoFile == [exists |-> FALSE, partial |-> FALSE, countries |-> <<>>]

pureVars == <<fn_pc, fn_in, fn_out>>

vars == <<prog, netVars, fetchVars, mainVars, scVars, pureVars, writes>>


\* main.py is not running
MainIdle ==
  /\ args = [max_regions |-> 0, max_countries |-> 0, max_pages |-> 0,
             threads |-> 0]
  /\ m_pc = "idle"
  /\ region_pairs = <<>>
  /\ tasks = <<>>
  /\ results = <<>>
  /\ out_file = [exists |-> FALSE, partial |-> FALSE, regions |-> <<>>]
  /\ exit_status = NONE
  /\ last_scrape =
       [task |-> 0, start |-> [p |-> "", ss |-> "", off |-> NONE,
                               rows |-> NONE, other |-> ""],
        chain |-> <<>>, got |-> <<>>, end |-> "", listings |-> <<>>]
  /\ served = 0

\* scrape_Countries.py is not running
CountriesIdle ==
  /\ concurrency = 0
  /\ sc_pc = "idle"
  /\ regions = <<>>
  /\ resolvers = <<>>
  /\ pairs = <<>>
  /\ countries_full = <<>>
  /\ scrapers = <<>>
  /\ countries_json = NoFile
  /\ tmp_file = NoFile

\* no single function call is running
PureIdle == fn_pc = "idle" /\ fn_in = <<>> /\ fn_out = <<>>

\* no single-URL fetch is running
FetchIdle ==
  /\ endpoint = [runs |-> <<>>, steady |-> [sc |-> 200, len |-> MinLen]]
  /\ wire = 0 /\ calls = 0
  /\ retry_total = NONE /\ retry_connect = NONE /\ last_status = NONE
  /\ f_pc = "idle" /\ retries = NONE /\ attempt = 0
  /\ last_exc = "None" /\ f_ret = NONE

(* ------------------------- main1.py: fetch ------------------------------ *)
\* r.status_code == 200
is_ok_mut(sc) == sc = 204
is_ok(sc) == sc = 200

\* r.status_code in (429, 500, 502, 503, 504)
soft_failure(sc) == sc \in {429, 500, 502, 503, 504}

\* HTTPError is a requests.RequestException, so the except clause of fetch
\* catches what raise_for_status raises.
caught_by_fetch_mut(exc) == exc = "ConnectionError"
caught_by_fetch(exc) == exc \in {"HTTPError", "ConnectionError"}

InitFetch1 ==
  /\ prog = "main1.fetch"
  /\ writes = 0
  /\ endpoint \in Endpoints
  /\ retries \in 0..MaxRetries
  /\ wire = 0
  /\ calls = 1
  /\ retry_total = RetryTotal1
  /\ retry_connect = RetryConnect1
  /\ last_status = NONE
  /\ f_pc = "get"
  /\ attempt = 0
  /\ last_exc = "None"
  /\ f_ret = NONE
  /\ MainIdle
  /\ CountriesIdle
  /\ PureIdle

\* `continue` or falling off the end of the try block: next attempt, or the
\* RuntimeError after the loop.
NextAttempt(exc) ==
  /\ last_exc' = exc
  /\ IF attempt < retries
       THEN /\ attempt' = attempt + 1
            /\ calls' = calls + 1
            /\ retry_total' = RetryTotal1
            /\ retry_connect' = RetryConnect1
            /\ f_pc' = "get"
       ELSE /\ f_pc' = "raised"
            /\ UNCHANGED <<attempt, calls, retry_total, retry_connect>>
  /\ UNCHANGED <<f_ret, retries>>

\* The adapter's urllib3 Retry repeats the GET inside one SESSION.get call:
\* on a status of status_forcelist while total is left, on a transport
\* error while total and connect are left.
Fetch1AdapterRetry ==
  /\ prog = "main1.fetch" /\ f_pc = "get"
  /\ LET a == AnswerAt(endpoint, wire + 1) IN
       /\ \/ a.sc \in status_forcelist /\ retry_total > 0
               /\ retry_connect' = retry_connect
          \/ a.sc = EXC /\ retry_total > 0 /\ retry_connect > 0
               /\ retry_connect' = retry_connect - 1
       /\ retry_total' = retry_total - 1
       /\ wire' = wire + 1
       /\ last_status' = a.sc
  /\ UNCHANGED <<prog, pureVars, writes, endpoint, calls, fetchVars, mainVars, scVars>>

\* the answer of this GET is what SESSION.get hands to fetch
Delivered1(a) ==
  /\ ~(a.sc \in status_forcelist /\ retry_total > 0)
  /\ ~(a.sc = EXC /\ retry_total > 0 /\ retry_connect > 0)

\* if r.status_code == 200: return r.text
Fetch1Return ==
  /\ prog = "main1.fetch" /\ f_pc = "get"
  /\ LET a == AnswerAt(endpoint, wire + 1) IN
       /\ Delivered1(a) /\ a.sc # EXC /\ is_ok(a.sc)
       /\ wire' = wire + 1
       /\ last_status' = a.sc
       /\ f_ret' = a.len
       /\ f_pc' = "returned"
  /\ UNCHANGED <<prog, pureVars, writes, endpoint, calls, retry_total, retry_connect,
                 retries, attempt, last_exc, mainVars, scVars>>

\* if r.status_code in (429, ...): last_exc = HTTPError(...); continue
Fetch1SoftFailure ==
  /\ prog = "main1.fetch" /\ f_pc = "get"
  /\ LET a == AnswerAt(endpoint, wire + 1) IN
       /\ Delivered1(a) /\ a.sc # EXC /\ ~is_ok(a.sc) /\ soft_failure(a.sc)
       /\ wire' = wire + 1
       /\ last_status' = a.sc
       /\ NextAttempt("HTTPError")
  /\ UNCHANGED <<prog, pureVars, writes, endpoint, mainVars, scVars>>

\* r.raise_for_status(): a 4xx/5xx raises HTTPError; the except clause
\* catches it and continues.  An HTTPError that were not caught would leave
\* fetch at once.
Fetch1RaiseForStatus ==
  /\ prog = "main1.fetch" /\ f_pc = "get"
  /\ LET a == AnswerAt(endpoint, wire + 1) IN
       /\ Delivered1(a) /\ a.sc # EXC /\ ~is_ok(a.sc) /\ ~soft_failure(a.sc)
       /\ raise_for_status(a.sc)
       /\ wire' = wire + 1
       /\ last_status' = a.sc
       /\ IF caught_by_fetch("HTTPError")
            THEN NextAttempt("HTTPError")
            ELSE /\ f_pc' = "escaped"
                 /\ UNCHANGED <<attempt, calls, retry_total, retry_connect,
                                f_ret, retries, last_exc>>
  /\ UNCHANGED <<prog, pureVars, writes, endpoint, mainVars, scVars>>

\* a status that is neither 200 nor an error (204, a 3xx that was not
\* followed): raise_for_status returns, the try block ends, the loop goes on
Fetch1FallThrough ==
  /\ prog = "main1.fetch" /\ f_pc = "get"
  /\ LET a == AnswerAt(endpoint, wire + 1) IN
       /\ Delivered1(a) /\ a.sc # EXC /\ ~is_ok(a.sc) /\ ~soft_failure(a.sc)
       /\ ~raise_for_status(a.sc)
       /\ wire' = wire + 1
       /\ last_status' = a.sc
       /\ NextAttempt(last_exc)
  /\ UNCHANGED <<prog, pureVars, writes, endpoint, mainVars, scVars>>

\* except requests.RequestException as e: last_exc = e; continue
Fetch1Exception ==
  /\ prog = "main1.fetch" /\ f_pc = "get"
  /\ LET a == AnswerAt(endpoint, wire + 1) IN
       /\ Delivered1(a) /\ a.sc = EXC
       /\ wire' = wire + 1
       /\ last_status' = a.sc
       /\ IF caught_by_fetch("ConnectionError")
            THEN NextAttempt("ConnectionError")
            ELSE /\ f_pc' = "escaped"
                 /\ UNCHANGED <<attempt, calls, retry_total, retry_connect,
                                f_ret, retries, last_exc>>
  /\ UNCHANGED <<prog, pureVars, writes, endpoint, mainVars, scVars>>

NextFetch1 ==
  \/ Fetch1AdapterRetry
  \/ Fetch1Return
  \/ Fetch1SoftFailure
  \/ Fetch1RaiseForStatus
  \/ Fetch1FallThrough
  \/ Fetch1Exception

SpecFetch1 == InitFetch1 /\ [][NextFetch1]_vars

\* C8: a call fetch(url) (retries = 2) against an endpoint answering 503,
\* 503, then 200 issues exactly 3 GET requests and returns the 200 body
\* without raising: it is still fetching before the third request, and after
\* the third request it has returned the body of the 200 answer.
Endpoint503x2Then200 ==
  [runs |-> << [a |-> [sc |-> 503, len |-> MinLen], n |-> 2] >>,
   steady |-> [sc |-> 200, len |-> MinLen]]
C8_RetryScenario ==
  (prog = "main1.fetch" /\ endpoint = Endpoint503x2Then200
     /\ retries = DefaultRetries)
  => /\ wire <= 3
     /\ wire < 3 => f_pc = "get"
     /\ wire = 3 => f_pc = "returned" /\ f_ret = MinLen /\ last_status = 200
C8_Witness ==
  /\ prog = "main1.fetch" /\ endpoint = Endpoint503x2Then200
  /\ retries = DefaultRetries
  /\ f_pc = "returned" /\ wire = 3

\* C9: after a 404 answer no further GET is issued for the URL.
C9_NoGetAfter404 ==
  [][(prog = "main1.fetch" /\ last_status = 404) => wire' = wire]_vars

(* ------------------------ main.py: fetch_html --------------------------- *)
\* if r.status_code != 200 or len(r.text) < 1000: r.raise_for_status()
\* return r.text
\* a is the answer session.get returned; EXC is an exception raised by it.
fetch_html_raises(a) ==
  \/ a.sc = EXC
  \/ (a.sc # 200 \/ a.len < MinLen) /\ raise_for_status(a.sc)

InitFetchHtml ==
  /\ prog = "main.fetch_html"
  /\ writes = 0
  /\ endpoint \in Endpoints
  /\ wire = 0
  /\ calls = 1
  /\ retry_total = RetryTotal
  /\ retry_connect = NONE
  /\ last_status = NONE
  /\ f_pc = "get"
  /\ retries = NONE
  /\ attempt = 0
  /\ last_exc = "None"
  /\ f_ret = NONE
  /\ MainIdle
  /\ CountriesIdle
  /\ PureIdle

\* Retry(total=5, status_forcelist=..., raise_on_status=False): the adapter
\* repeats the GET on a forcelist status or a transport error while total
\* is left.
RetriedByAdapter(a) ==
  (a.sc \in status_forcelist \/ a.sc = EXC) /\ retry_total > 0

FetchHtmlAdapterRetry ==
  /\ prog = "main.fetch_html" /\ f_pc = "get"
  /\ LET a == AnswerAt(endpoint, wire + 1) IN
       /\ RetriedByAdapter(a)
       /\ retry_total' = retry_total - 1
       /\ wire' = wire + 1
       /\ last_status' = a.sc
  /\ UNCHANGED <<prog, pureVars, writes, endpoint, calls, retry_connect, fetchVars, mainVars, scVars>>

FetchHtmlReturn ==
  /\ prog = "main.fetch_html" /\ f_pc = "get"
  /\ LET a == AnswerAt(endpoint, wire + 1) IN
       /\ ~RetriedByAdapter(a)
       /\ ~fetch_html_raises(a)
       /\ wire' = wire + 1
       /\ last_status' = a.sc
       /\ f_ret' = a.len
       /\ f_pc' = "returned"
  /\ UNCHANGED <<prog, pureVars, writes, endpoint, calls, retry_total, retry_connect,
                 retries, attempt, last_exc, mainVars, scVars>>

FetchHtmlRaise ==
  /\ prog = "main.fetch_html" /\ f_pc = "get"
  /\ LET a == AnswerAt(endpoint, wire + 1) IN
       /\ ~RetriedByAdapter(a)
       /\ fetch_html_raises(a)
       /\ wire' = wire + 1
       /\ last_status' = a.sc
       /\ f_pc' = "raised"
  /\ UNCHANGED <<prog, pureVars, writes, endpoint, calls, retry_total, retry_connect,
                 retries, attempt, last_exc, f_ret, mainVars, scVars>>

NextFetchHtml ==
  \/ FetchHtmlAdapterRetry
  \/ FetchHtmlReturn
  \/ FetchHtmlRaise

SpecFetchHtml == InitFetchHtml /\ [][NextFetchHtml]_vars

\* C10: a 200 answer whose body is shorter than 1000 characters is never
\* returned as a page: every GET answered that way is followed by a retry
\* or by an error, never by a return of that body.
C10_ShortBodyIsFailure ==
  (prog = "main.fetch_html" /\ f_pc = "returned")
  => ~(last_status = 200 /\ f_ret < MinLen)


(* ------------------------------ main.py -------------------------------- *)
(* bounds of the site and of the command line *)
\* anchors on the root catalog page
MaxRegionAnchors == 2
\* /country/ anchors on a region page
MaxCountryAnchors == 2
\* hotel cards on a listing page
MaxCards == 2
\* anchors and cards on all the pages of the site together
MaxSiteItems == 4
\* largest --max-regions, --max-countries, --max-pages, --threads
MaxRegionsArg == 2
MaxCountriesArg == 2
MaxPagesArg == 3
MaxThreads == 2

\* int(qs.get("rows", "25"))
DefaultRows == 25
\* a query parameter whose value is not an integer
BAD == -2

\* A URL of the search results: a link found on a page (p), or the query
\* synthesized from a country name (ss), with its offset and rows parameters
\* and the rest of its query string (other).
NoURL == [p |-> "", ss |-> "", off |-> NONE, rows |-> NONE, other |-> ""]
Link(p, off, rows) ==
  [p |-> p, ss |-> "", off |-> off, rows |-> rows, other |-> ""]

\* <a href="/region..."> anchors of the root page: (text, absolutized href)
RegionAnchors ==
  { <<"Alps", "r1">>, <<"alps", "r2">>, <<"Bali", "r1">>, <<"", "r2">> }
\* <a href^="/country/"> anchors of a region page
CountryAnchors ==
  { <<"NL", "c1">>, <<"Holland", "c1">>, <<"PK", "c2">>, <<"", "c2">> }
\* the country a region page's canonical link and breadcrumb lead to
InferredCountries == { <<"PK", "c2">> }
\* property cards of a listing page that link to /hotel/ pages
Hotels ==
  { [name |-> "H", url |-> "h1"], [name |-> "G", url |-> "h1"],
    [name |-> "H", url |-> "h2"] }
\* search links a country page can carry
StartLinks == { Link("A", NONE, NONE), Link("A", 0, NONE), Link("A", 0, 0) }
\* targets of an explicit next-page link
NextLinks == { Link("A", NONE, NONE), Link("B", NONE, NONE) }

SeqsUpTo(S, n) == UNION { [1..k -> S] : k \in 0..n }

\* str.lower() on the names of the model
Lower(name) ==
  IF name = "Alps" THEN "alps" ELSE IF name = "Bali" THEN "bali" ELSE name
\* position of a lower-cased name in the order of Python's str comparison
KeyRank(key) == IF key = "alps" THEN 1 ELSE IF key = "bali" THEN 2 ELSE 0

\* The command lines of the model: one of the three limits varies over its
\* whole range while the other two are 1.
Args ==
  { [max_regions |-> r, max_countries |-> 1, max_pages |-> 1, threads |-> t] :
      r \in 0..MaxRegionsArg, t \in 1..MaxThreads }
  \cup
  { [max_regions |-> 1, max_countries |-> c, max_pages |-> 1, threads |-> 1] :
      c \in 0..MaxCountriesArg }
  \cup
  { [max_regions |-> 1, max_countries |-> 1, max_pages |-> q, threads |-> 1] :
      q \in 0..MaxPagesArg }

RECURSIVE dedupe_from(_, _)
dedupe_from(items, out) ==
  IF items = <<>> THEN out
  ELSE dedupe_from(Tail(items),
         IF \E j \in 1..Len(out) : out[j] = Head(items)
           THEN out ELSE Append(out, Head(items)))

\* dedupe_preserve_order(items): first occurrence of every (name, url) pair
dedupe_preserve_order(items) == dedupe_from(items, <<>>)

RECURSIVE dedupe_url_from(_, _)
dedupe_url_from(hs, out) ==
  IF hs = <<>> THEN out
  ELSE dedupe_url_from(Tail(hs),
         IF \E j \in 1..Len(out) : out[j].url = Head(hs).url
           THEN out ELSE Append(out, Head(hs)))

\* "if h.url not in seen": first hotel of every url
dedupe_by_url(hs) == dedupe_url_from(hs, <<>>)

\* the anchors with a non-empty text ("if not text or not href: continue")
RECURSIVE named_anchors(_)
named_anchors_mut(anchors) == anchors
named_anchors(anchors) ==
  IF anchors = <<>> THEN <<>>
  ELSE IF Head(anchors)[1] = "" THEN named_anchors(Tail(anchors))
  ELSE <<Head(anchors)>> \o named_anchors(Tail(anchors))

parse_regions(anchors) == dedupe_preserve_order(named_anchors(anchors))

\* region_pairs[:args.max_regions] if args.max_regions > 0
limit_mut(items, max) ==
  IF Len(items) > max THEN SubSeq(items, 1, max) ELSE items
limit(items, max) ==
  IF max > 0 /\ Len(items) > max THEN SubSeq(items, 1, max) ELSE items

\* a region page: its /country/ anchors, and the country inferred from the
\* canonical link (<<>> when there is none)
RegionPages ==
  { [anchors |-> as, inferred |-> inf] :
      as \in SeqsUpTo(CountryAnchors, MaxCountryAnchors),
      inf \in {<<>>} \cup { <<c>> : c \in InferredCountries } }

\* extract_country_from_region_page: <<pair>> or <<>> for None
extract_country_from_region_page(page) ==
  IF named_anchors(page.anchors) # <<>>
    THEN <<Head(named_anchors(page.anchors))>>
    ELSE page.inferred

RECURSIVE add_candidates(_, _)
\* "if nm and hr and (nm, hr) not in candidates: candidates.append((nm, hr))"
add_candidates(cands, anchors) ==
  IF anchors = <<>> THEN cands
  ELSE add_candidates(
         IF Head(anchors)[1] # ""
            /\ ~ \E j \in 1..Len(cands) : cands[j] = Head(anchors)
           THEN Append(cands, Head(anchors)) ELSE cands,
         Tail(anchors))

\* the candidates of process_region after dedupe and [:max_countries]
region_candidates(page, max_countries) ==
  limit(dedupe_preserve_order(
          add_candidates(extract_country_from_region_page(page),
                         page.anchors)),
        max_countries)

\* a country page: its explicit destination search link and its ss= search
\* link (NoURL when absent)
CountryPages ==
  { [dest |-> d, sslink |-> l] :
      d \in {NoURL} \cup StartLinks, l \in {NoURL, Link("A", NONE, NONE)} }

\* find_country_search_url(html, fallback_country_name); NoURL for None
find_country_search_url(page, fallback_country_name) ==
  IF page.dest # NoURL THEN page.dest
  ELSE IF fallback_country_name # "" /\ page.sslink # NoURL THEN page.sslink
  ELSE IF fallback_country_name # ""
    THEN [p |-> "", ss |-> fallback_country_name, off |-> NONE, rows |-> NONE,
          other |-> ""]
  ELSE NoURL

\* a listing page: its hotel cards and its explicit next-page link
ListingPages ==
  { [cards |-> cs, next |-> n] :
      cs \in SeqsUpTo(Hotels, MaxCards), n \in {NoURL} \cup NextLinks }

\* parse_hotels_from_search: the cards, deduplicated by URL
parse_hotels_from_search(page) == dedupe_by_url(page.cards)

\* the other parameters of a query string
OtherParams == { "", "lang=en", "label=", "nflt=a&nflt=b" }

\* urlencode(dict(parse_qsl(query))) on the other parameters: parse_qsl
\* leaves out a parameter with a blank value, and of a key that occurs
\* twice the dict keeps the last value
requery(other) ==
  IF other = "label=" THEN ""
  ELSE IF other = "nflt=a&nflt=b" THEN "nflt=b"
  ELSE other

\* int(qs["offset"]) raises ValueError in the try and again in the except
find_next_page_raises(page, current_url) ==
  page.next = NoURL /\ current_url.off = BAD

\* find_next_page(html, current_url); NoURL for None
find_next_page(page, current_url) ==
  IF page.next # NoURL THEN page.next
  ELSE IF current_url.off # NONE
    THEN [current_url EXCEPT !.off =
            current_url.off
              + (IF current_url.rows \in {NONE, BAD}
                   THEN DefaultRows ELSE current_url.rows),
                             !.other = requery(@)]
  ELSE NoURL

\* "while url and pages_done < max_pages"
loop_continues_mut(url, pages_done, max_pages) ==
  url # NoURL /\ pages_done <= max_pages
loop_continues(url, pages_done, max_pages) ==
  url # NoURL /\ pages_done < max_pages

\* "if not next_url or next_url == url: break"
loop_breaks(next_url, url) == next_url = NoURL \/ next_url = url

Country(pair, listings) ==
  [name |-> pair[1], url |-> pair[2], listings |-> listings]
Region(pair, countries) ==
  [name |-> pair[1], url |-> pair[2], countries |-> countries]

\* a process_region call that has not started
NewTask ==
  [pc |-> "queued", candidates |-> <<>>, ci |-> 0, countries |-> <<>>,
   url |-> NoURL, pages_done |-> 0, listings |-> <<>>,
   \* history: how the processing of each country ended, and the pages the
   \* running listing scrape has fetched
   outcomes |-> <<>>, chain |-> <<>>]

\* history: no listing scrape ended in the last step
NoScrape ==
  [task |-> 0, start |-> NoURL, chain |-> <<>>, got |-> <<>>, end |-> "",
   listings |-> <<>>]

\* countries.append(Country(...)) and the next iteration of the for loop
append_country(t, listings, outcome) ==
  [t EXCEPT !.countries = Append(@, Country(t.candidates[t.ci], listings)),
            !.outcomes = Append(@, outcome),
            !.ci = @ + 1,
            !.pc = IF t.ci + 1 > Len(t.candidates) THEN "done" ELSE "country",
            !.url = NoURL, !.pages_done = 0, !.listings = <<>>,
            !.chain = <<>>]

\* except Exception: countries.append(Country(..., listings=[])); continue
on_country_error_mut(t) ==
  [t EXCEPT !.ci = @ + 1,
            !.pc = IF t.ci + 1 > Len(t.candidates) THEN "done" ELSE "country"]
on_country_error(t) == append_country(t, <<>>, "country error")

InitMain ==
  /\ prog = "main"
  /\ writes = 0
  /\ args \in Args
  /\ m_pc = "start"
  /\ region_pairs = <<>>
  /\ tasks = <<>>
  /\ results = <<>>
  /\ out_file = [exists |-> FALSE, partial |-> FALSE, regions |-> <<>>]
  /\ exit_status = NONE
  /\ last_scrape = NoScrape
  /\ served = 0
  /\ FetchIdle
  /\ CountriesIdle
  /\ PureIdle

\* the exit status of the interpreter: 1 when main() ends with an exception
\* that nothing catches, 0 when main() returns
exit_status_of_mut(uncaught) == IF uncaught THEN 0 ELSE 1
exit_status_of(uncaught) == IF uncaught THEN 1 ELSE 0

\* regions_html = fetch_html(session, REGIONS_URL) raises: nothing catches it
MainRootFails ==
  /\ prog = "main" /\ m_pc = "start"
  /\ \E a \in Answers : fetch_html_raises(a)
  /\ m_pc' = "crashed"
  /\ exit_status' = exit_status_of(TRUE)
  /\ last_scrape' = NoScrape
  /\ UNCHANGED <<served, scVars, prog, pureVars, writes, netVars, fetchVars, args, region_pairs, tasks,
                 results, out_file>>

\* the root page is fetched, parsed and truncated; one future per region
MainRootFetched ==
  /\ prog = "main" /\ m_pc = "start"
  /\ \E a \in Answers : ~fetch_html_raises(a)
  /\ \E anchors \in SeqsUpTo(RegionAnchors, MaxRegionAnchors) :
       /\ served' = served + Len(anchors)
       /\ served' <= MaxSiteItems
       /\ region_pairs' = limit(parse_regions(anchors), args.max_regions)
       /\ tasks' = [i \in 1..Len(region_pairs') |-> NewTask]
  /\ m_pc' = "pool"
  /\ last_scrape' = NoScrape
  /\ UNCHANGED <<scVars, prog, pureVars, writes, netVars, fetchVars, args, results, out_file,
                 exit_status>>

Running == { i \in 1..Len(tasks) :
               tasks[i].pc \in {"region", "country", "listing"} }

\* a worker of ThreadPoolExecutor(max_workers=max(1, args.threads)) takes the
\* oldest queued work item
StartTask(i) ==
  /\ prog = "main" /\ m_pc = "pool"
  /\ tasks[i].pc = "queued"
  /\ \A j \in 1..(i - 1) : tasks[j].pc # "queued"
  /\ Cardinality(Running) < (IF args.threads > 1 THEN args.threads ELSE 1)
  /\ tasks' = [tasks EXCEPT ![i].pc = "region"]
  /\ last_scrape' = NoScrape
  /\ UNCHANGED <<served, scVars, prog, pureVars, writes, netVars, fetchVars, args, m_pc, region_pairs, results,
                 out_file, exit_status>>

\* r_html = fetch_html(session, region_url) raises: Region with no countries
RegionFetchFails(i) ==
  /\ prog = "main" /\ tasks[i].pc = "region"
  /\ \E a \in Answers : fetch_html_raises(a)
  /\ tasks' = [tasks EXCEPT ![i].pc = "done"]
  /\ last_scrape' = NoScrape
  /\ UNCHANGED <<served, scVars, prog, pureVars, writes, netVars, fetchVars, args, m_pc, region_pairs, results,
                 out_file, exit_status>>

\* the region page is fetched; candidates are computed
RegionFetched(i) ==
  /\ prog = "main" /\ tasks[i].pc = "region"
  /\ \E a \in Answers : ~fetch_html_raises(a)
  /\ \E page \in RegionPages :
       LET cands == region_candidates(page, args.max_countries) IN
       /\ served' = served + Len(page.anchors) + Len(page.inferred)
       /\ served' <= MaxSiteItems
       /\ tasks' = [tasks EXCEPT ![i] =
                   [@ EXCEPT !.candidates = cands,
                             !.ci = 1,
                             !.pc = IF cands = <<>> THEN "done"
                                    ELSE "country"]]
  /\ last_scrape' = NoScrape
  /\ UNCHANGED <<scVars, prog, pureVars, writes, netVars, fetchVars, args, m_pc, region_pairs, results,
                 out_file, exit_status>>

\* c_html = fetch_html(session, country_url) raises: Country with no listings
CountryFetchFails(i) ==
  /\ prog = "main" /\ tasks[i].pc = "country"
  /\ \E a \in Answers : fetch_html_raises(a)
  /\ tasks' = [tasks EXCEPT ![i] = on_country_error(@)]
  /\ last_scrape' = NoScrape
  /\ UNCHANGED <<served, scVars, prog, pureVars, writes, netVars, fetchVars, args, m_pc, region_pairs, results,
                 out_file, exit_status>>

\* the country page is fetched; the search URL is found; the listing scrape
\* starts, or ends at once when its while loop does not run
CountryFetched(i) ==
  /\ prog = "main" /\ tasks[i].pc = "country"
  /\ \E a \in Answers : ~fetch_html_raises(a)
  /\ \E page \in CountryPages :
       LET t == tasks[i]
           search_url == find_country_search_url(page, t.candidates[t.ci][1])
       IN
       IF search_url = NoURL
         THEN /\ tasks' = [tasks EXCEPT ![i] =
                             append_country(t, <<>>, "no search link")]
              /\ last_scrape' = NoScrape
       ELSE IF loop_continues(search_url, 0, args.max_pages)
         THEN /\ tasks' = [tasks EXCEPT ![i] =
                             [t EXCEPT !.pc = "listing", !.url = search_url,
                                       !.pages_done = 0, !.listings = <<>>]]
              /\ last_scrape' = NoScrape
       ELSE /\ tasks' = [tasks EXCEPT ![i] = append_country(t, <<>>, "ok")]
            /\ last_scrape' = [NoScrape EXCEPT !.task = i,
                                               !.start = search_url,
                                               !.end = "return"]
  /\ UNCHANGED <<served, scVars, prog, pureVars, writes, netVars, fetchVars, args, m_pc, region_pairs, results,
                 out_file, exit_status>>

\* html = fetch_html(session, url) raises inside scrape_country_listings:
\* process_region catches it, listings is still []
ListingFetchFails(i) ==
  /\ prog = "main" /\ tasks[i].pc = "listing"
  /\ \E a \in Answers : fetch_html_raises(a)
  /\ LET t == tasks[i] IN
       /\ tasks' = [tasks EXCEPT ![i] =
                      append_country(t, <<>>, "listings error")]
       /\ last_scrape' =
            [task |-> i,
             start |-> IF t.chain = <<>> THEN t.url ELSE t.chain[1].url,
             chain |-> t.chain, got |-> t.listings, end |-> "raise",
             listings |-> <<>>]
  /\ UNCHANGED <<served, scVars, prog, pureVars, writes, netVars, fetchVars, args, m_pc, region_pairs, results,
                 out_file, exit_status>>

\* one iteration of the while loop of scrape_country_listings, and what
\* follows it when the loop ends
ListingFetched(i) ==
  /\ prog = "main" /\ tasks[i].pc = "listing"
  /\ \E a \in Answers : ~fetch_html_raises(a)
  /\ \E page \in ListingPages :
       LET t == tasks[i]
           listings == t.listings \o parse_hotels_from_search(page)
           pages_done == t.pages_done + 1
           raises == find_next_page_raises(page, t.url)
           next_url == find_next_page(page, t.url)
           chain == Append(t.chain, [url |-> t.url, next |-> next_url])
           ended == [task |-> i, start |-> chain[1].url, chain |-> chain,
                     got |-> listings, end |-> "return",
                     listings |-> dedupe_by_url(listings)]
       IN
       /\ served' = served + Len(page.cards)
       /\ served' <= MaxSiteItems
       /\ IF raises
              THEN /\ tasks' = [tasks EXCEPT ![i] =
                                  append_country(t, <<>>, "listings error")]
                   /\ last_scrape' = [ended EXCEPT !.end = "raise",
                                                   !.listings = <<>>]
            ELSE IF loop_breaks(next_url, t.url)
                    \/ ~loop_continues(next_url, pages_done, args.max_pages)
              THEN /\ tasks' = [tasks EXCEPT ![i] =
                                  append_country(t, ended.listings, "ok")]
                   /\ last_scrape' = ended
            ELSE /\ tasks' = [tasks EXCEPT ![i] =
                                [t EXCEPT !.url = next_url,
                                          !.pages_done = pages_done,
                                          !.listings = listings,
                                          !.chain = chain]]
                 /\ last_scrape' = NoScrape
  /\ UNCHANGED <<scVars, prog, pureVars, writes, netVars, fetchVars, args, m_pc, region_pairs, results,
                 out_file, exit_status>>

\* "for fut in as_completed(futures)": results.append(fut.result())
Collect(i) ==
  /\ prog = "main" /\ m_pc = "pool"
  /\ tasks[i].pc = "done"
  /\ results' = Append(results, Region(region_pairs[i], tasks[i].countries))
  /\ tasks' = [tasks EXCEPT ![i].pc = "collected"]
  /\ last_scrape' = NoScrape
  /\ UNCHANGED <<served, scVars, prog, pureVars, writes, netVars, fetchVars, args, m_pc, region_pairs,
                 out_file, exit_status>>

RECURSIVE insert_sorted(_, _)
\* r goes after every element whose key is not greater (the sort is stable)
insert_sorted(sorted, r) ==
  IF sorted = <<>> THEN <<r>>
  ELSE IF KeyRank(Lower(Head(sorted).name)) <= KeyRank(Lower(r.name))
    THEN <<Head(sorted)>> \o insert_sorted(Tail(sorted), r)
  ELSE <<r>> \o sorted

RECURSIVE sort_from(_, _)
sort_from(rs, sorted) ==
  IF rs = <<>> THEN sorted
  ELSE sort_from(Tail(rs), insert_sorted(sorted, Head(rs)))

\* results.sort(key=lambda r: r.name.lower())
sort_by_name(rs) == sort_from(rs, <<>>)

\* all futures are collected: results.sort(...), and open(args.output, "w")
\* truncates the output file
MainOpen ==
  /\ prog = "main" /\ m_pc = "pool"
  /\ \A i \in 1..Len(tasks) : tasks[i].pc = "collected"
  /\ results' = sort_by_name(results)
  /\ out_file' = [exists |-> FALSE, partial |-> TRUE, regions |-> <<>>]
  /\ m_pc' = "writing"
  /\ last_scrape' = NoScrape
  /\ UNCHANGED <<served, scVars, prog, pureVars, writes, netVars, fetchVars, args, region_pairs,
                 tasks, exit_status>>

\* json.dump(out, f) has written the whole document, the file is closed,
\* main returns
MainWrite ==
  /\ prog = "main" /\ m_pc = "writing"
  /\ out_file' = [exists |-> TRUE, partial |-> FALSE, regions |-> results]
  /\ m_pc' = "exit"
  /\ exit_status' = exit_status_of(FALSE)
  /\ last_scrape' = NoScrape
  /\ writes' = writes + 1
  /\ UNCHANGED <<served, scVars, prog, pureVars, netVars, fetchVars, args, region_pairs,
                 tasks, results>>

\* the process is stopped while json.dump writes into the open file
MainKilled ==
  /\ prog = "main" /\ m_pc = "writing"
  /\ m_pc' = "killed"
  /\ last_scrape' = NoScrape
  /\ UNCHANGED <<served, scVars, prog, pureVars, writes, netVars, fetchVars, args, region_pairs,
                 tasks, results, out_file, exit_status>>

NextMain ==
  \/ MainRootFails
  \/ MainRootFetched
  \/ \E i \in 1..Len(tasks) : StartTask(i)
  \/ \E i \in 1..Len(tasks) : RegionFetchFails(i)
  \/ \E i \in 1..Len(tasks) : RegionFetched(i)
  \/ \E i \in 1..Len(tasks) : CountryFetchFails(i)
  \/ \E i \in 1..Len(tasks) : CountryFetched(i)
  \/ \E i \in 1..Len(tasks) : ListingFetchFails(i)
  \/ \E i \in 1..Len(tasks) : ListingFetched(i)
  \/ \E i \in 1..Len(tasks) : Collect(i)
  \/ MainOpen
  \/ MainWrite
  \/ MainKilled

SpecMain == InitMain /\ [][NextMain]_vars

\* the main thread and the worker threads keep being scheduled
SpecMainFair == SpecMain /\ WF_vars(NextMain)


(* -------------------------- scrape_Countries.py ------------------------- *)
\* regions read from booking_hierarchy.json
MaxRegions == 2
\* city cards on a country page
MaxCityCards == 2
\* largest concurrency argument
MaxConcurrency == 2
\* cards on all the pages that scrape_Countries.py fetches together
MaxScItems == 2

\* the entries of booking_hierarchy.json that have a name and a url
RegionsIn == { [name |-> "Alps", url |-> "r1"], [name |-> "Bali", url |-> "r2"] }

\* the third breadcrumb item of a region page: none, a link, or plain text
Crumbs ==
  { [li |-> FALSE, link |-> FALSE, name |-> "", url |-> ""],
    [li |-> TRUE, link |-> TRUE, name |-> "NL", url |-> "c1"],
    [li |-> TRUE, link |-> TRUE, name |-> "Holland", url |-> "c1"],
    [li |-> TRUE, link |-> TRUE, name |-> "", url |-> "c2"],
    [li |-> TRUE, link |-> FALSE, name |-> "PK", url |-> ""] }

\* parse_country_from_breadcrumb(html, page_url)
parse_country_from_breadcrumb(crumb, page_url) ==
  IF crumb.li
    THEN IF crumb.link THEN <<crumb.name, crumb.url>>
         ELSE <<crumb.name, page_url>>
    ELSE <<"", page_url>>

\* resolve_country_worker after a successful get_html: <<>> for None
resolve_country(crumb, page_url) ==
  LET pair == parse_country_from_breadcrumb(crumb, page_url) IN
  IF pair[1] = "" THEN <<>> ELSE <<pair>>

\* "key = url or name"
country_key(pair) == IF pair[2] # "" THEN pair[2] ELSE pair[1]

RECURSIVE dedupe_countries_from(_, _)
dedupe_countries_from(ps, out) ==
  IF ps = <<>> THEN out
  ELSE dedupe_countries_from(Tail(ps),
         IF \E j \in 1..Len(out) : country_key(out[j]) = country_key(Head(ps))
           THEN out ELSE Append(out, Head(ps)))

\* main: "Dedupe by URL, then name as fallback"
dedupe_countries(ps) == dedupe_countries_from(ps, <<>>)

\* a JSON value that is a list or null
PyList(items) == [none |-> FALSE, items |-> items]
PyNone == [none |-> TRUE, items |-> <<>>]

\* city cards of a country page
CityCards ==
  { [name |-> "X", url |-> "u1"], [name |-> "Y", url |-> "u1"],
    [name |-> "X", url |-> "u2"], [name |-> "", url |-> "u2"] }
\* what parse_popular_regions returns: None without the heading
PopularRegions ==
  { PyNone, PyList(<<[name |-> "Coast", url |-> "p1"]>>) }
CountryPagesSc ==
  { [cards |-> cs, popular |-> pr] :
      cs \in SeqsUpTo(CityCards, MaxCityCards), pr \in PopularRegions }

RECURSIVE named_cards(_)
\* "if not name: continue"
named_cards(cards) ==
  IF cards = <<>> THEN <<>>
  ELSE IF Head(cards).name = "" THEN named_cards(Tail(cards))
  ELSE <<Head(cards)>> \o named_cards(Tail(cards))

\* parse_cities_from_country: named cards, deduplicated by (url, name)
parse_cities_from_country(page) == dedupe_from(named_cards(page.cards), <<>>)

\* a city page: the target of its "hotels in" link ("" without one) and the
\* property cards it carries itself
HotelCards == Hotels \cup { [name |-> "", url |-> "h2"] }
CityPages ==
  { [link |-> "", cards |-> cs] : cs \in SeqsUpTo(HotelCards, MaxCards) }
  \cup { [link |-> "l1", cards |-> <<>>] }
HotelPages == { [cards |-> cs] : cs \in SeqsUpTo(HotelCards, MaxCards) }

\* resolve_hotels_listing_url(html, base_url)
resolve_hotels_listing_url(page, base_url) ==
  IF page.link # "" THEN page.link ELSE base_url

\* parse_hotels_from_listing: the cards with a link and a name, in page order
parse_hotels_from_listing(page) == named_cards(page.cards)

\* job(city): c = dict(city); c["hotels"] = hotels
with_hotels(city, hotels) ==
  [name |-> city.name, url |-> city.url, hotels |-> hotels]

NewResolver == [pc |-> "queued", res |-> <<>>]
NewScraper ==
  [pc |-> "queued", cities |-> <<>>, popular_regions |-> PyList(<<>>),
   jobs |-> <<>>, updated_cities |-> <<>>]

InitCountries ==
  /\ prog = "scrape_Countries"
  /\ writes = 0
  /\ concurrency \in 1..MaxConcurrency
  /\ sc_pc = "stage1"
  /\ regions \in UNION { [1..k -> RegionsIn] : k \in 1..MaxRegions }
  /\ resolvers = [i \in 1..Len(regions) |-> NewResolver]
  /\ pairs = <<>>
  /\ countries_full = <<>>
  /\ scrapers = <<>>
  /\ countries_json = NoFile
  /\ tmp_file = NoFile
  /\ MainIdle
  /\ FetchIdle
  /\ PureIdle

mainOnly ==
  <<args, m_pc, region_pairs, tasks, results, out_file, last_scrape>>

InFlight1 == { i \in 1..Len(resolvers) : resolvers[i].pc = "fetch" }

\* a worker of the stage 1 pool takes the oldest queued region
ResolverStart(i) ==
  /\ prog = "scrape_Countries" /\ sc_pc = "stage1"
  /\ resolvers[i].pc = "queued"
  /\ \A j \in 1..(i - 1) : resolvers[j].pc # "queued"
  /\ Cardinality(InFlight1) < concurrency
  /\ resolvers' = [resolvers EXCEPT ![i].pc = "fetch"]
  /\ UNCHANGED <<prog, pureVars, writes, netVars, fetchVars, mainOnly, served, exit_status,
                 concurrency, sc_pc, regions, pairs, countries_full,
                 scrapers, countries_json, tmp_file>>

\* resolve_country_worker: get_html raises, the worker returns None
ResolverFails(i) ==
  /\ prog = "scrape_Countries" /\ resolvers[i].pc = "fetch"
  /\ resolvers' = [resolvers EXCEPT ![i].pc = "done"]
  /\ UNCHANGED <<prog, pureVars, writes, netVars, fetchVars, mainOnly, served, exit_status,
                 concurrency, sc_pc, regions, pairs, countries_full,
                 scrapers, countries_json, tmp_file>>

\* resolve_country_worker: the region page is fetched and parsed
ResolverFetched(i) ==
  /\ prog = "scrape_Countries" /\ resolvers[i].pc = "fetch"
  /\ \E crumb \in Crumbs :
       resolvers' = [resolvers EXCEPT ![i] =
                       [pc |-> "done",
                        res |-> resolve_country(crumb, regions[i].url)]]
  /\ UNCHANGED <<prog, pureVars, writes, netVars, fetchVars, mainOnly, served, exit_status,
                 concurrency, sc_pc, regions, pairs, countries_full,
                 scrapers, countries_json, tmp_file>>

\* "for fut in as_completed(futures)": pairs.append(res) if res
ResolverCollect(i) ==
  /\ prog = "scrape_Countries" /\ sc_pc = "stage1"
  /\ resolvers[i].pc = "done"
  /\ pairs' = pairs \o resolvers[i].res
  /\ resolvers' = [resolvers EXCEPT ![i].pc = "collected"]
  /\ UNCHANGED <<prog, pureVars, writes, netVars, fetchVars, mainOnly, served, exit_status,
                 concurrency, sc_pc, regions, countries_full,
                 scrapers, countries_json, tmp_file>>

\* save_countries: open(tmp, "w") creates or truncates countries.json.tmp
open_tmp == [exists |-> FALSE, partial |-> TRUE, countries |-> <<>>]
\* save_countries: json.dump(data, f) is complete and the file is closed
dump_tmp(data) == [exists |-> TRUE, partial |-> FALSE, countries |-> data]

\* stage 1 is drained: dedupe, countries_full, and save_countries opens the
\* temporary file
SaveStage1Open ==
  /\ prog = "scrape_Countries" /\ sc_pc = "stage1"
  /\ \A i \in 1..Len(resolvers) : resolvers[i].pc = "collected"
  /\ LET countries == dedupe_countries(pairs) IN
       countries_full' =
         [c \in 1..Len(countries) |->
            [name |-> countries[c][1], url |-> countries[c][2],
             cities |-> <<>>, popular_regions |-> PyList(<<>>)]]
  /\ tmp_file' = open_tmp
  /\ sc_pc' = "save1"
  \* the stage 1 futures, pairs and regions are not read again
  /\ resolvers' = <<>>
  /\ pairs' = <<>>
  /\ regions' = <<>>
  /\ UNCHANGED <<prog, pureVars, writes, netVars, fetchVars, mainOnly, served, exit_status,
                 concurrency, scrapers, countries_json>>

\* save_countries: the document is written to the temporary file
SaveStage1Dump ==
  /\ prog = "scrape_Countries" /\ sc_pc = "save1"
  /\ tmp_file.partial
  /\ tmp_file' = dump_tmp(countries_full)
  /\ UNCHANGED <<prog, pureVars, writes, netVars, fetchVars, mainOnly, served, exit_status,
                 concurrency, sc_pc, regions, resolvers, pairs,
                 countries_full, scrapers, countries_json>>

\* save_countries: os.replace(tmp, path); then the stage 2 futures are
\* submitted
SaveStage1 ==
  /\ prog = "scrape_Countries" /\ sc_pc = "save1"
  /\ tmp_file.exists
  /\ countries_json' = tmp_file
  /\ tmp_file' = NoFile
  /\ scrapers' = [c \in 1..Len(countries_full) |-> NewScraper]
  /\ sc_pc' = "stage2"
  /\ writes' = writes + 1
  /\ UNCHANGED <<prog, pureVars, netVars, fetchVars, mainOnly, served, exit_status,
                 concurrency, regions, resolvers, pairs, countries_full>>

\* the process is stopped while save_countries runs
CountriesKilled ==
  /\ prog = "scrape_Countries" /\ sc_pc \in {"save1", "save2"}
  /\ sc_pc' = "killed"
  /\ UNCHANGED <<prog, pureVars, writes, netVars, fetchVars, mainOnly, served, exit_status,
                 concurrency, regions, resolvers, pairs, countries_full,
                 scrapers, countries_json, tmp_file>>

\* stage 2 threads that run scrape_country_worker
Running2 == { c \in 1..Len(scrapers) : scrapers[c].pc \in {"fetch", "cities"} }

\* a worker of the stage 2 pool takes the oldest queued country
ScraperStart(c) ==
  /\ prog = "scrape_Countries" /\ sc_pc = "stage2"
  /\ scrapers[c].pc = "queued"
  /\ \A j \in 1..(c - 1) : scrapers[j].pc # "queued"
  /\ Cardinality(Running2) < concurrency
  /\ scrapers' = [scrapers EXCEPT ![c].pc = "fetch"]
  /\ UNCHANGED <<prog, pureVars, writes, netVars, fetchVars, mainOnly, served, exit_status,
                 concurrency, sc_pc, regions, resolvers, pairs,
                 countries_full, countries_json, tmp_file>>

\* scrape_country_worker: html = get_html(s, url) raises, and so does the
\* future
ScraperFails(c) ==
  /\ prog = "scrape_Countries" /\ scrapers[c].pc = "fetch"
  /\ scrapers' = [scrapers EXCEPT ![c].pc = "raised"]
  /\ UNCHANGED <<prog, pureVars, writes, netVars, fetchVars, mainOnly, served, exit_status,
                 concurrency, sc_pc, regions, resolvers, pairs,
                 countries_full, countries_json, tmp_file>>

\* scrape_country_worker: the country page is fetched and parsed; one job
\* per city is submitted to a pool of len(cities) threads
ScraperFetched(c) ==
  /\ prog = "scrape_Countries" /\ scrapers[c].pc = "fetch"
  /\ \E page \in CountryPagesSc :
       LET cities == parse_cities_from_country(page) IN
       /\ served' = served + Len(page.cards) + Len(page.popular.items)
       /\ served' <= MaxScItems
       /\ scrapers' = [scrapers EXCEPT ![c] =
            [pc |-> IF cities = <<>> THEN "done" ELSE "cities",
             cities |-> cities,
             popular_regions |-> page.popular,
             jobs |-> [j \in 1..Len(cities) |->
                         [pc |-> "city", hotels |-> <<>>]],
             updated_cities |-> <<>>]]
  /\ UNCHANGED <<prog, pureVars, writes, netVars, fetchVars, mainOnly, exit_status,
                 concurrency, sc_pc, regions, resolvers, pairs,
                 countries_full, countries_json, tmp_file>>

\* job: scrape_city_hotels raises at one of its get_html calls: hotels = []
JobFails(c, j) ==
  /\ prog = "scrape_Countries" /\ scrapers[c].pc = "cities"
  /\ scrapers[c].jobs[j].pc \in {"city", "listing"}
  /\ scrapers' = [scrapers EXCEPT ![c].jobs[j] =
                    [pc |-> "done", hotels |-> <<>>]]
  /\ UNCHANGED <<prog, pureVars, writes, netVars, fetchVars, mainOnly, served, exit_status,
                 concurrency, sc_pc, regions, resolvers, pairs,
                 countries_full, countries_json, tmp_file>>

\* scrape_city_hotels: the city page is fetched; its hotels are parsed, or
\* its "hotels in" link is followed
JobCityFetched(c, j) ==
  /\ prog = "scrape_Countries" /\ scrapers[c].pc = "cities"
  /\ scrapers[c].jobs[j].pc = "city"
  /\ \E page \in CityPages :
       LET city_url == scrapers[c].cities[j].url
           target == resolve_hotels_listing_url(page, city_url)
       IN
       /\ served' = served + Len(page.cards)
       /\ served' <= MaxScItems
       /\ scrapers' = [scrapers EXCEPT ![c].jobs[j] =
            IF target # city_url
              THEN [pc |-> "listing", hotels |-> <<>>]
              ELSE [pc |-> "done",
                    hotels |-> parse_hotels_from_listing(page)]]
  /\ UNCHANGED <<prog, pureVars, writes, netVars, fetchVars, mainOnly, exit_status,
                 concurrency, sc_pc, regions, resolvers, pairs,
                 countries_full, countries_json, tmp_file>>

\* scrape_city_hotels: the page behind the "hotels in" link is fetched
JobListingFetched(c, j) ==
  /\ prog = "scrape_Countries" /\ scrapers[c].pc = "cities"
  /\ scrapers[c].jobs[j].pc = "listing"
  /\ \E page \in HotelPages :
       /\ served' = served + Len(page.cards)
       /\ served' <= MaxScItems
       /\ scrapers' = [scrapers EXCEPT ![c].jobs[j] =
            [pc |-> "done", hotels |-> parse_hotels_from_listing(page)]]
  /\ UNCHANGED <<prog, pureVars, writes, netVars, fetchVars, mainOnly, exit_status,
                 concurrency, sc_pc, regions, resolvers, pairs,
                 countries_full, countries_json, tmp_file>>

\* "for fut in as_completed(futures): updated_cities.append(fut.result())",
\* and the return of scrape_country_worker after the last city
JobCollect(c, j) ==
  /\ prog = "scrape_Countries" /\ scrapers[c].pc = "cities"
  /\ scrapers[c].jobs[j].pc = "done"
  /\ LET t == scrapers[c]
         jobs == [t.jobs EXCEPT ![j].pc = "collected"]
     IN
     scrapers' = [scrapers EXCEPT ![c] =
       [t EXCEPT !.jobs = jobs,
                 !.updated_cities =
                    Append(@, with_hotels(t.cities[j], t.jobs[j].hotels)),
                 !.pc = IF \A k \in 1..Len(jobs) : jobs[k].pc = "collected"
                          THEN "done" ELSE "cities"]]
  /\ UNCHANGED <<prog, pureVars, writes, netVars, fetchVars, mainOnly, served, exit_status,
                 concurrency, sc_pc, regions, resolvers, pairs,
                 countries_full, countries_json, tmp_file>>

\* url_to_idx = {c["url"]: i for i, c in enumerate(countries_full)}
url_to_idx_mut(url) == IF countries_full = <<>> THEN 0 ELSE 1
url_to_idx(url) ==
  LET hits == { i \in 1..Len(countries_full) : countries_full[i].url = url }
  IN IF hits = {} THEN 0 ELSE CHOOSE i \in hits : \A k \in hits : k <= i

\* "for fut in as_completed(futures)": the payload of a finished worker is
\* attached to its country
Attach(c) ==
  /\ prog = "scrape_Countries" /\ sc_pc = "stage2"
  /\ scrapers[c].pc = "done"
  /\ LET idx == url_to_idx(countries_full[c].url) IN
       countries_full' =
         IF idx = 0 THEN countries_full
         ELSE [countries_full EXCEPT
                 ![idx].cities = scrapers[c].updated_cities,
                 ![idx].popular_regions = scrapers[c].popular_regions]
  /\ scrapers' = [scrapers EXCEPT ![c].pc = "collected"]
  /\ UNCHANGED <<prog, pureVars, writes, netVars, fetchVars, mainOnly, served, exit_status,
                 concurrency, sc_pc, regions, resolvers, pairs,
                 countries_json, tmp_file>>

\* fut.result() raises: "except Exception as e: print(...)"
on_scraper_error_mut(cf, c) == [i \in 1..(Len(cf) - 1) |-> cf[i]]
on_scraper_error(cf, c) == cf

AttachFails(c) ==
  /\ prog = "scrape_Countries" /\ sc_pc = "stage2"
  /\ scrapers[c].pc = "raised"
  /\ countries_full' = on_scraper_error(countries_full, c)
  /\ scrapers' = [scrapers EXCEPT ![c].pc = "failed"]
  /\ UNCHANGED <<prog, pureVars, writes, netVars, fetchVars, mainOnly, served, exit_status,
                 concurrency, sc_pc, regions, resolvers, pairs,
                 countries_json, tmp_file>>

\* stage 2 is drained: save_countries opens the temporary file
SaveStage2Open ==
  /\ prog = "scrape_Countries" /\ sc_pc = "stage2"
  /\ \A c \in 1..Len(scrapers) : scrapers[c].pc \in {"collected", "failed"}
  /\ tmp_file' = open_tmp
  /\ sc_pc' = "save2"
  /\ UNCHANGED <<prog, pureVars, writes, netVars, fetchVars, mainOnly, served, exit_status,
                 concurrency, regions, resolvers, pairs, countries_full,
                 scrapers, countries_json>>

\* save_countries: the document is written to the temporary file
SaveStage2Dump ==
  /\ prog = "scrape_Countries" /\ sc_pc = "save2"
  /\ tmp_file.partial
  /\ tmp_file' = dump_tmp(countries_full)
  /\ UNCHANGED <<prog, pureVars, writes, netVars, fetchVars, mainOnly, served, exit_status,
                 concurrency, sc_pc, regions, resolvers, pairs,
                 countries_full, scrapers, countries_json>>

\* save_countries: os.replace(tmp, path); main returns
SaveStage2 ==
  /\ prog = "scrape_Countries" /\ sc_pc = "save2"
  /\ tmp_file.exists
  /\ countries_json' = tmp_file
  /\ tmp_file' = NoFile
  /\ sc_pc' = "exit"
  /\ exit_status' = 0
  /\ writes' = writes + 1
  /\ UNCHANGED <<prog, pureVars, netVars, fetchVars, mainOnly, served,
                 concurrency, regions, resolvers, pairs, countries_full,
                 scrapers>>

NextCountries ==
  \/ \E i \in 1..Len(resolvers) : ResolverStart(i)
  \/ \E i \in 1..Len(resolvers) : ResolverFails(i)
  \/ \E i \in 1..Len(resolvers) : ResolverFetched(i)
  \/ \E i \in 1..Len(resolvers) : ResolverCollect(i)
  \/ SaveStage1Open
  \/ SaveStage1Dump
  \/ SaveStage1
  \/ CountriesKilled
  \/ \E c \in 1..Len(scrapers) : ScraperStart(c)
  \/ \E c \in 1..Len(scrapers) : ScraperFails(c)
  \/ \E c \in 1..Len(scrapers) : ScraperFetched(c)
  \/ \E c \in 1..Len(scrapers) : \E j \in 1..Len(scrapers[c].jobs) :
       JobFails(c, j)
  \/ \E c \in 1..Len(scrapers) : \E j \in 1..Len(scrapers[c].jobs) :
       JobCityFetched(c, j)
  \/ \E c \in 1..Len(scrapers) : \E j \in 1..Len(scrapers[c].jobs) :
       JobListingFetched(c, j)
  \/ \E c \in 1..Len(scrapers) : \E j \in 1..Len(scrapers[c].jobs) :
       JobCollect(c, j)
  \/ \E c \in 1..Len(scrapers) : Attach(c)
  \/ \E c \in 1..Len(scrapers) : AttachFails(c)
  \/ SaveStage2Open
  \/ SaveStage2Dump
  \/ SaveStage2

SpecCountries == InitCountries /\ [][NextCountries]_vars

(* ------------------- main.py: single function calls -------------------- *)
\* largest offset of a current URL, in pages of DefaultRows results
MaxOffsetPages == 1
\* largest rows parameter of a current URL
MaxRows == 2

\* the values of the offset and rows parameters: absent, not an integer, or
\* an integer
Offsets == {NONE, BAD} \cup { k * DefaultRows : k \in 0..MaxOffsetPages }
RowsValues == {NONE, BAD} \cup 0..MaxRows

CurrentURLs ==
  { [p |-> "A", ss |-> "", off |-> o, rows |-> r, other |-> x] :
      o \in Offsets, r \in RowsValues, x \in OtherParams }

\* one call find_next_page(html, current_url)
InitNextPage ==
  /\ prog = "main.find_next_page"
  /\ writes = 0
  /\ fn_pc = "call"
  /\ fn_in \in [page : { p \in ListingPages : p.cards = <<>> },
                current_url : CurrentURLs]
  /\ fn_out = <<>>
  /\ MainIdle
  /\ CountriesIdle
  /\ FetchIdle

FindNextPageReturns ==
  /\ prog = "main.find_next_page" /\ fn_pc = "call"
  /\ ~find_next_page_raises(fn_in.page, fn_in.current_url)
  /\ fn_out' = find_next_page(fn_in.page, fn_in.current_url)
  /\ fn_pc' = "returned"
  /\ UNCHANGED <<prog, writes, fn_in, netVars, fetchVars, mainVars, scVars>>

\* ValueError leaves find_next_page
FindNextPageRaises ==
  /\ prog = "main.find_next_page" /\ fn_pc = "call"
  /\ find_next_page_raises(fn_in.page, fn_in.current_url)
  /\ fn_pc' = "raised"
  /\ UNCHANGED <<prog, writes, fn_in, fn_out, netVars, fetchVars, mainVars, scVars>>

NextNextPage == FindNextPageReturns \/ FindNextPageRaises

SpecNextPage == InitNextPage /\ [][NextNextPage]_vars

\* the candidates of process_region for one region page and one
\* max_countries
InitCandidates ==
  /\ prog = "main.process_region"
  /\ writes = 0
  /\ fn_pc = "call"
  /\ fn_in \in [page : RegionPages, max_countries : 0..MaxCountriesArg]
  /\ fn_out = <<>>
  /\ MainIdle
  /\ CountriesIdle
  /\ FetchIdle

CandidatesComputed ==
  /\ prog = "main.process_region" /\ fn_pc = "call"
  /\ fn_out' = region_candidates(fn_in.page, fn_in.max_countries)
  /\ fn_pc' = "returned"
  /\ UNCHANGED <<prog, writes, fn_in, netVars, fetchVars, mainVars, scVars>>

NextCandidates == CandidatesComputed

SpecCandidates == InitCandidates /\ [][NextCandidates]_vars

(* --------------------- any program of the repository -------------------- *)
Init ==
  \/ InitMain \/ InitCountries \/ InitFetch1 \/ InitFetchHtml
  \/ InitNextPage \/ InitCandidates
Next ==
  \/ NextMain \/ NextCountries \/ NextFetch1 \/ NextFetchHtml
  \/ NextNextPage \/ NextCandidates
Spec == Init /\ [][Next]_vars

(* ------------------------- properties of main.py ------------------------ *)
\* the country that the step just taken appended to task i
LastCountry(i) == tasks[i].countries[Len(tasks[i].countries)]

NoTwoShareUrl(xs) ==
  \A j, k \in 1..Len(xs) : xs[j].url = xs[k].url => j = k

\* C1: the listings of a country are the URL-deduplicated union of the
\* records extracted from the listing pages fetched for it, also when a later
\* page of the scrape could not be fetched.
C1_ListingsAreUnionOfFetched ==
  (prog = "main" /\ last_scrape.task # 0)
  => LastCountry(last_scrape.task).listings = dedupe_by_url(last_scrape.got)

\* C3: in the written tree no two regions share a URL, no two countries of a
\* region share a URL, no two listings of a country share a URL.
C3_NoDuplicateKeysMain ==
  (prog = "main" /\ out_file.exists)
  => /\ NoTwoShareUrl(out_file.regions)
     /\ \A r \in 1..Len(out_file.regions) :
          /\ NoTwoShareUrl(out_file.regions[r].countries)
          /\ \A c \in 1..Len(out_file.regions[r].countries) :
               NoTwoShareUrl(out_file.regions[r].countries[c].listings)

\* the pages of a chain are those of one function from URLs to next URLs
IsFunction(chain) ==
  \A j, k \in 1..Len(chain) :
    chain[j].url = chain[k].url => chain[j].next = chain[k].next

NoRefetch(chain) ==
  \A j, k \in 1..Len(chain) : chain[j].url = chain[k].url => j = k

\* C5: one listing scrape fetches no URL twice, whatever function from pages
\* to next-page URLs the site implements.
C5_NoUrlFetchedTwice ==
  prog = "main"
  => /\ IsFunction(last_scrape.chain) => NoRefetch(last_scrape.chain)
     /\ \A i \in 1..Len(tasks) :
          IsFunction(tasks[i].chain) => NoRefetch(tasks[i].chain)

\* after page j of the chain the loop has to stop
StopsAfter(chain, j) ==
  \/ chain[j].next = NoURL
  \/ chain[j].next = chain[j].url
  \/ j >= args.max_pages

\* C6: the pagination loop fetches at most max_pages pages, follows the
\* cursor from page to page, and returns exactly after the first page after
\* which there is no next URL, the next URL is the current one, or max_pages
\* pages have been fetched.  Every iteration fetches one more page of a
\* chain that never holds more than max_pages pages, so the loop terminates.
C6_PaginationStops ==
  prog = "main"
  => /\ \A i \in 1..Len(tasks) :
          /\ Len(tasks[i].chain) = tasks[i].pages_done
          /\ tasks[i].pc = "listing" => tasks[i].pages_done < args.max_pages
          /\ tasks[i].pc # "listing" => tasks[i].chain = <<>>
     /\ LET chain == last_scrape.chain IN
          /\ Len(chain) <= (IF args.max_pages > 0 THEN args.max_pages ELSE 0)
          /\ \A j \in 1..(Len(chain) - 1) : chain[j + 1].url = chain[j].next
          /\ last_scrape.end = "return" =>
               /\ \A j \in 1..(Len(chain) - 1) : ~StopsAfter(chain, j)
               /\ chain # <<>> => StopsAfter(chain, Len(chain))
               /\ chain = <<>> => args.max_pages <= 0
C6_Witness ==
  /\ prog = "main" /\ last_scrape.end = "return"
  /\ Len(last_scrape.chain) = 2
  /\ args.max_pages = 3
  /\ last_scrape.chain[2].next = last_scrape.chain[2].url

\* C7: the value 0 of --max-regions, --max-countries and --max-pages means
\* unlimited: nothing is cut from the region list or from the candidates,
\* and a listing scrape ends only on a page without a further next URL.
C7_ZeroMeansUnlimited ==
  /\ \A items \in SeqsUpTo(RegionAnchors, MaxRegionAnchors) :
       limit(parse_regions(items), 0) = parse_regions(items)
  /\ \A page \in RegionPages :
       Len(region_candidates(page, 0))
         = Len(region_candidates(page, MaxCountryAnchors + 1))
  /\ (prog = "main" /\ args.max_pages = 0 /\ last_scrape.end = "return")
       => /\ last_scrape.chain # <<>>
          /\ LET last == last_scrape.chain[Len(last_scrape.chain)] IN
               last.next = NoURL \/ last.next = last.url


(* --------------------- properties of partial failure -------------------- *)
\* main.py: every region of the written tree holds one country per
\* candidate, in order, and a country whose page fetch failed has no listings
MainTreeComplete ==
  /\ exit_status = 0
  /\ out_file.exists
  /\ Len(out_file.regions) = Len(region_pairs)
  /\ \A i \in 1..Len(tasks) :
       /\ \E k \in 1..Len(out_file.regions) :
            out_file.regions[k] = Region(region_pairs[i], tasks[i].countries)
       /\ Len(tasks[i].countries) = Len(tasks[i].candidates)
       /\ \A j \in 1..Len(tasks[i].countries) :
            /\ tasks[i].countries[j].name = tasks[i].candidates[j][1]
            /\ tasks[i].countries[j].url = tasks[i].candidates[j][2]
            /\ tasks[i].outcomes[j] = "country error"
                 => tasks[i].countries[j].listings = <<>>

\* scrape_Countries.py: countries.json holds every country of stage 1; a
\* country whose worker raised has no children, every other country has the
\* popular regions of its page and each city of its page with its hotels
CountriesTreeComplete ==
  /\ exit_status = 0
  /\ countries_json.exists
  /\ Len(countries_json.countries) = Len(scrapers)
  /\ \A c \in 1..Len(scrapers) :
       LET country == countries_json.countries[c]
           t == scrapers[c]
       IN
       /\ t.pc \in {"failed", "collected"}
       /\ t.pc = "failed" =>
            country.cities = <<>> /\ country.popular_regions = PyList(<<>>)
       /\ t.pc = "collected" =>
            /\ country.popular_regions = t.popular_regions
            /\ Len(country.cities) = Len(t.cities)
            /\ \A j \in 1..Len(t.cities) :
                 \E k \in 1..Len(country.cities) :
                   country.cities[k] = with_hotels(t.cities[j], t.jobs[j].hotels)

\* C2: when the page fetch of one country fails, the output still holds all
\* the countries, the failed one with empty children and the others with the
\* children extracted for them, and the run ends with the output written and
\* exit status 0 -- in the country loop of main.py process_region and in
\* stage 2 of scrape_Countries.py main.
C2_PartialFailureContained ==
  /\ (prog = "main" /\ m_pc = "exit") => MainTreeComplete
  /\ (prog = "main" /\ m_pc = "crashed") => tasks = <<>>
  /\ (prog = "main" /\ last_scrape.end = "return")
       => LastCountry(last_scrape.task).listings
            = dedupe_by_url(last_scrape.got)
  /\ (prog = "scrape_Countries" /\ sc_pc = "exit") => CountriesTreeComplete
C2_Witness ==
  /\ prog = "scrape_Countries" /\ sc_pc = "exit"
  /\ \E c, d \in 1..Len(scrapers) :
       /\ scrapers[c].pc = "failed"
       /\ scrapers[d].pc = "collected"
       /\ countries_json.countries[d].cities # <<>>
       /\ countries_json.countries[d].cities[1].hotels # <<>>
\* the same case in main.py: the first country of a region failed, the
\* second one has listings
C2_WitnessMain ==
  /\ prog = "main" /\ m_pc = "exit"
  /\ \E i \in 1..Len(tasks) :
       /\ Len(tasks[i].countries) = 2
       /\ tasks[i].outcomes[1] = "country error"
       /\ tasks[i].countries[2].listings # <<>>

\* C4: in countries.json no two countries share a key, no two cities of a
\* country share a URL, no two hotels of a city share a URL.
C4_NoDuplicateKeysCountries ==
  (prog = "scrape_Countries" /\ countries_json.exists)
  => /\ \A c, d \in 1..Len(countries_json.countries) :
          country_key(<<countries_json.countries[c].name,
                        countries_json.countries[c].url>>)
            = country_key(<<countries_json.countries[d].name,
                            countries_json.countries[d].url>>)
          => c = d
     /\ \A c \in 1..Len(countries_json.countries) :
          /\ NoTwoShareUrl(countries_json.countries[c].cities)
          /\ \A j \in 1..Len(countries_json.countries[c].cities) :
               NoTwoShareUrl(countries_json.countries[c].cities[j].hotels)

(* ---------------- properties of concurrency and ordering ---------------- *)
\* the get_html calls of scrape_Countries.py that have started and have not
\* returned: those of the stage 1 workers, of the stage 2 workers, and of
\* the city jobs of every country's own pool
FetchesInFlight ==
  Cardinality(InFlight1)
  + Cardinality({ c \in 1..Len(scrapers) : scrapers[c].pc = "fetch" })
  + Cardinality(UNION { { <<c, j>> : j \in { k \in 1..Len(scrapers[c].jobs) :
                                        scrapers[c].jobs[k].pc
                                          \in {"city", "listing"} } } :
                        c \in 1..Len(scrapers) })

\* C11: in scrape_Countries.py the number of HTTP fetches in flight never
\* exceeds the configured concurrency.
C11_InFlightWithinConcurrency ==
  prog = "scrape_Countries" => FetchesInFlight <= concurrency

\* the (name, url) pairs of a sequence of regions
PairsOf(rs) == [k \in 1..Len(rs) |-> <<rs[k].name, rs[k].url>>]

\* what main.py writes when the futures complete in the order of submission
InOrderOutput ==
  PairsOf(sort_by_name([k \in 1..Len(region_pairs) |->
                          Region(region_pairs[k], <<>>)]))

\* C12: the order of the regions in the written JSON is the same for every
\* order in which the region workers complete, so it is the order of the run
\* in which they complete in the order of submission.
C12_OutputIndependentOfCompletionOrder ==
  (prog = "main" /\ out_file.exists)
    => PairsOf(out_file.regions) = InOrderOutput

\* the fetches main.py has issued for country pages: <<task, position>> of
\* every candidate whose page fetch has started
CountryFetches ==
  UNION { { <<i, k>> : k \in { n \in 1..Len(tasks[i].candidates) :
                                 \/ n <= Len(tasks[i].countries)
                                 \/ (n = tasks[i].ci
                                      /\ tasks[i].pc \in {"country", "listing"}) } } :
          i \in 1..Len(tasks) }

\* C16: no country page or listing page is fetched before every region page
\* fetch of the run has completed, and no listing page before every country
\* page fetch has completed.
C16_StagesSeparatedByBarrier ==
  prog = "main"
  => \A i, j \in 1..Len(tasks) :
       /\ (tasks[i].pc \in {"country", "listing"}
             => tasks[j].pc \notin {"queued", "region"})
       /\ (tasks[i].pc = "listing"
             => /\ tasks[j].pc # "country"
                /\ tasks[i].ci = Len(tasks[i].candidates))

\* C17: a country page URL is fetched at most once in a run, also when two
\* regions resolve to the same country.
C17_CountryFetchedOncePerRun ==
  prog = "main"
  => \A f, g \in CountryFetches :
       tasks[f[1]].candidates[f[2]][2] = tasks[g[1]].candidates[g[2]][2]
         => f = g

RECURSIVE ResultsFrom(_)
\* what the stage 1 workers returned, in the order of the input regions
ResultsFrom(i) ==
  IF i > Len(resolvers) THEN <<>>
  ELSE resolvers[i].res \o ResultsFrom(i + 1)

\* C13: the countries of countries.json are in the order in which the input
\* lists their regions (first region that resolved to each country), and the
\* cities of a country are in the order in which parse_cities_from_country
\* extracted them, whatever the order in which the workers complete.
C13_FirstSeenOrder ==
  [][/\ (SaveStage1Open /\ NoTwoShareUrl(regions))
          => [c \in 1..Len(countries_full') |->
                <<countries_full'[c].name, countries_full'[c].url>>]
               = dedupe_countries(ResultsFrom(1))
     /\ \A c \in 1..Len(scrapers) :
          Attach(c)
            => PairsOf(countries_full'[c].cities) = PairsOf(scrapers[c].cities)
    ]_vars

\* the stage 2 workers that have not finished
UnfinishedWorkers ==
  { c \in 1..Len(scrapers) : scrapers[c].pc \in {"queued", "fetch", "cities"} }

\* C20: countries_full is assigned only by main, and only when no worker of
\* the stage 2 pool is still queued or running.
C20_TreeMutatedAfterPoolDrained ==
  [][(prog = "scrape_Countries" /\ sc_pc = "stage2"
        /\ countries_full' # countries_full)
       => /\ \E c \in 1..Len(scrapers) : Attach(c)
          /\ UnfinishedWorkers = {}
    ]_vars

(* ------------------- properties of the output documents ----------------- *)
\* C14: whenever the process may stop, the output path of main.py and
\* countries.json hold no file or a complete document, never a partially
\* written one.
C14_OutputWriteIsAtomic ==
  /\ prog = "main" => ~out_file.partial
  /\ prog = "scrape_Countries" => ~countries_json.partial

\* the exit statuses of main.py: 1 after a failed fetch of the root page and
\* only then; 0 with the output written after every other run that ends
ExitStatusFollowsRoot ==
  prog = "main"
  => /\ exit_status \in {NONE, 0, 1}
     /\ (exit_status # NONE /\ exit_status # 0) <=> m_pc = "crashed"
     /\ m_pc = "crashed" => (tasks = <<>> /\ ~out_file.exists)
     /\ exit_status = 0 <=> m_pc = "exit"
     /\ m_pc = "exit" => (out_file.exists /\ Len(out_file.regions) = Len(tasks))

\* C15: main.py ends with a non-zero exit status exactly when the fetch of
\* the root page fails; once the root page is fetched, every run, whatever
\* region, country and listing fetches fail in it, goes on to write the
\* output file and ends with status 0 (unless the process is stopped from
\* outside while it writes).
C15_NonZeroExitOnlyOnRootFailure ==
  /\ []ExitStatusFollowsRoot
  /\ (prog = "main" /\ m_pc = "pool") ~> (m_pc \in {"exit", "killed"})
C15_Witness ==
  /\ prog = "main" /\ m_pc = "exit" /\ exit_status = 0 /\ out_file.exists
  /\ \E i \in 1..Len(tasks) :
       /\ Len(tasks[i].outcomes) = 2
       /\ tasks[i].outcomes[1] = "country error"
       /\ tasks[i].outcomes[2] = "listings error"

(* -------------------- properties of single function calls --------------- *)
\* the pairs of a region page in the order in which process_region sees
\* them: the inferred country, then the named /country/ anchors
SeenPairs(page) ==
  extract_country_from_region_page(page) \o named_anchors(page.anchors)

\* position of the first occurrence of x in seq
FirstAt(seq, x) ==
  CHOOSE k \in 1..Len(seq) : seq[k] = x /\ \A j \in 1..(k - 1) : seq[j] # x

Range(seq) == { seq[k] : k \in 1..Len(seq) }

\* C18: the countries processed for a region are the distinct candidate
\* pairs in first-seen order, cut to the first max_countries of them when
\* max_countries > 0 and all of them when max_countries = 0; a repeated pair
\* takes no slot of the limit.
C18_DedupeThenTruncate ==
  (prog = "main.process_region" /\ fn_pc = "returned")
  => LET seen == SeenPairs(fn_in.page)
         m == fn_in.max_countries
         distinct == Cardinality(Range(seen))
     IN
     /\ Range(fn_out) \subseteq Range(seen)
     /\ \A j, k \in 1..Len(fn_out) :
          j < k => FirstAt(seen, fn_out[j]) < FirstAt(seen, fn_out[k])
     /\ \A x \in Range(seen) \ Range(fn_out) :
          \A y \in Range(fn_out) : FirstAt(seen, y) < FirstAt(seen, x)
     /\ Len(fn_out) = (IF m > 0 /\ m < distinct THEN m ELSE distinct)
C18_Witness ==
  /\ prog = "main.process_region" /\ fn_pc = "returned"
  /\ fn_in.max_countries = 2
  /\ Len(SeenPairs(fn_in.page)) = 3
  /\ SeenPairs(fn_in.page)[1] = SeenPairs(fn_in.page)[2]
  /\ Len(fn_out) = 2

\* C19: find_next_page returns the explicit next-page link when the page has
\* one; otherwise, for a current URL with an offset parameter, the current
\* URL with offset replaced by offset + rows (25 without a rows parameter)
\* and every other query parameter unchanged; otherwise None.
C19_NextPageDecision ==
  (prog = "main.find_next_page" /\ fn_pc = "returned")
  => LET page == fn_in.page
         u == fn_in.current_url
     IN
     /\ page.next # NoURL => fn_out = page.next
     /\ (page.next = NoURL /\ u.off = NONE) => fn_out = NoURL
     /\ (page.next = NoURL /\ u.off \notin {NONE, BAD} /\ u.rows # BAD)
          => fn_out = [u EXCEPT !.off = u.off + (IF u.rows = NONE
                                                   THEN DefaultRows
                                                   ELSE u.rows)]

(* --------------------- properties of serialization ---------------------- *)
\* C21: scrape_Countries.py writes countries.json exactly twice in a
\* completed run, first when stage 1 is complete and before a stage 2 task
\* is submitted, then when stage 2 is complete; main.py too has serialized
\* its tree at the stage transitions before it writes it for the last time.
C21_SerializedAtStageTransitions ==
  /\ prog = "scrape_Countries"
       => /\ sc_pc \in {"stage1", "save1"} => (writes = 0 /\ scrapers = <<>>)
          /\ sc_pc \in {"stage2", "save2"} => writes = 1
          /\ sc_pc = "save2" => UnfinishedWorkers = {}
          /\ sc_pc = "exit" => writes = 2
  /\ (prog = "main" /\ m_pc = "writing"
        /\ \E i \in 1..Len(tasks) : tasks[i].countries # <<>>)
       => writes >= 1

(* ------------------------ properties of stage 2 ------------------------- *)
\* C22: stage 2 leaves the (name, url) sequence of the countries saved after
\* stage 1 as it is, in countries_full and in countries.json, and the payload
\* of a worker is attached to the country whose page the worker fetched and
\* to no other.
C22_Stage2KeepsCountries ==
  [][(prog = "scrape_Countries" /\ sc_pc \in {"stage2", "save2"})
       => /\ PairsOf(countries_full') = PairsOf(countries_full)
          /\ PairsOf(countries_json'.countries)
               = PairsOf(countries_json.countries)
          /\ PairsOf(countries_json.countries) = PairsOf(countries_full)
          /\ \A c \in 1..Len(scrapers) :
               Attach(c)
                 => /\ countries_full'[c].cities = scrapers[c].updated_cities
                    /\ countries_full'[c].popular_regions
                         = scrapers[c].popular_regions
                    /\ \A d \in 1..Len(countries_full) :
                         d # c => countries_full'[d] = countries_full[d]
    ]_vars
C22_Witness ==
  /\ prog = "scrape_Countries" /\ sc_pc = "exit"
  /\ Len(countries_json.countries) = 2
  /\ countries_json.countries[1].cities = <<>>
  /\ countries_json.countries[2].cities # <<>>
  /\ scrapers[1].pc = "collected"

(* ----------------------- properties of main1.fetch ---------------------- *)
\* C23: fetch(url, retries) issues at most retries + 1 GET requests; it
\* returns a body exactly when a request was answered with status 200;
\* otherwise it raises RuntimeError after exactly retries + 1 requests, and
\* no requests exception leaves it.
C23_FetchRequestBudget ==
  prog = "main1.fetch"
  => /\ wire <= retries + 1
     /\ f_pc = "returned" <=> last_status = 200
     /\ f_pc = "raised" => wire = retries + 1
     /\ f_pc \in {"get", "returned", "raised"}

(* --------------------- properties of process_region --------------------- *)
\* C24: every country candidate has a non-empty name, so a search URL is
\* found or synthesized for every country whose page was fetched: a listings
\* scrape is attempted for it and the "[no search link]" branch is never
\* taken.
C24_SearchUrlAlwaysFound ==
  prog = "main"
  => \A i \in 1..Len(tasks) :
       /\ \A k \in 1..Len(tasks[i].candidates) :
            tasks[i].candidates[k][1] # ""
       /\ \A k \in 1..Len(tasks[i].outcomes) :
            tasks[i].outcomes[k] \in {"country error", "ok", "listings error"}
       /\ tasks[i].pc = "listing" => tasks[i].url # NoURL
C24_Witness ==
  /\ prog = "main"
  /\ \E i \in 1..Len(tasks) :
       /\ tasks[i].pc = "listing"
       /\ tasks[i].url.ss = tasks[i].candidates[tasks[i].ci][1]

====
